---- MODULE Spec2Model ----
(***************************************************************************)
(* Model of fixed_str/src/serialize_ext.rs: the codec adapters of          *)
(* FixedStr<N> for binrw (fixed-width binary), rkyv (zero-copy archive)    *)
(* and serde (text tokens, and the opt-in serde_as_bytes byte tokens).     *)
(*                                                                         *)
(* A FixedStr<N> value is modelled by its only field, `data: [u8; N]`, a   *)
(* sequence of exactly N bytes.  A Result is a record with an `ok` flag.   *)
(***************************************************************************)
EXTENDS Integers, Sequences, FiniteSets, TLC

\* ------------------------------------------------------------------ bounds

\* The capacity: the const generic N of FixedStr<N>.
N == 2

\* Longest string / byte-sequence token handed to a deserializer.
MaxTokLen == 3

\* Number of write_options calls on one stream.
MaxWrites == 2

\* Number of read_options calls between two set_position calls.
MaxReads == 3

\* The positions set_position is called with: the start of the stream, and
\* one position that is not a multiple of N.
SeekTargets == {0, 1}

\* ------------------------------------------------------------------- bytes

\* Representative bytes: NUL, 'a', the lead (0xC3) and the continuation
\* (0xA9) of the two-byte character U+00E9, and 0xFF, valid nowhere in UTF-8.
Byte == {0, 97, 195, 169, 255}

\* Bytes sent through the binary stream and the stream: NUL and 0xFF.
RawByte == {0, 255}

RECURSIVE SeqsOfLen(_, _)
SeqsOfLen(S, n) ==
    IF n = 0 THEN {<<>>}
    ELSE {Append(s, b) : s \in SeqsOfLen(S, n - 1), b \in S}

SeqsUpTo(S, n) == UNION {SeqsOfLen(S, k) : k \in 0..n}

Min(a, b) == IF a < b THEN a ELSE b
Max(a, b) == IF a > b THEN a ELSE b

\* ------------------------------------------------------------------- UTF-8

\* core::str::from_utf8's width table: the length a lead byte announces.
Utf8CharWidth(b) ==
    IF b < 128 THEN 1
    ELSE IF b >= 194 /\ b <= 223 THEN 2
    ELSE IF b >= 224 /\ b <= 239 THEN 3
    ELSE IF b >= 240 /\ b <= 244 THEN 4
    ELSE 0

IsContinuation(b) == b >= 128 /\ b <= 191

\* The range the second byte of a sequence led by b must lie in.
SecondByteOk(b, c) ==
    IF b = 224 THEN c >= 160 /\ c <= 191
    ELSE IF b = 237 THEN c >= 128 /\ c <= 159
    ELSE IF b = 240 THEN c >= 144 /\ c <= 191
    ELSE IF b = 244 THEN c >= 128 /\ c <= 143
    ELSE IsContinuation(c)

\* core::str::from_utf8(bytes).is_ok(), scanning from index i (1-based).
RECURSIVE ValidUtf8From(_, _)
ValidUtf8From(s, i) ==
    IF i > Len(s) THEN TRUE
    ELSE LET w == Utf8CharWidth(s[i]) IN
         /\ w > 0
         /\ i + w - 1 <= Len(s)
         /\ w >= 2 => SecondByteOk(s[i], s[i + 1])
         /\ \A k \in 2..(w - 1) : IsContinuation(s[i + k])
         /\ ValidUtf8From(s, i + w)

ValidUtf8(s) == ValidUtf8From(s, 1)

\* ------------------------------------------------------ values and tokens

\* Every FixedStr<N>: any N bytes.
FixedStrs == SeqsOfLen(Byte, N)

\* Every &str of at most MaxTokLen bytes.
Strs == {s \in SeqsUpTo(Byte, MaxTokLen) : ValidUtf8(s)}

\* Every &[u8] of at most N + 1 bytes handed to the byte deserializer.
ByteSlices == SeqsUpTo(RawByte, N + 1)

Ok(v) == [ok |-> TRUE, val |-> v, err |-> "none"]
Err(e) == [ok |-> FALSE, val |-> <<>>, err |-> e]

\* No call made yet.
None == [ok |-> FALSE, val |-> <<>>, err |-> "nocall"]

\* ------------------------------------------------- the base type FixedStr
\*
\* FixedStr's own operations are defined in the crate's other source files;
\* serialize_ext.rs only calls them.  They are modelled from the design
\* specification (spec.md, sections 3, 4.3 and 6): the buffer is N raw
\* bytes, text is padded with zero bytes, try_as_str fails exactly when the
\* buffer is not valid UTF-8, and construction from bytes is exact-length.

\* FixedStr::new(input): the longest prefix of whole characters of `input`
\* that fits the capacity (characters beyond capacity are dropped), the
\* remaining capacity padded with zero bytes.
TruncLen(s) ==
    CHOOSE k \in 0..Min(N, Len(s)) :
        /\ k = Len(s) \/ ~IsContinuation(s[k + 1])
        /\ \A j \in (k + 1)..Min(N, Len(s)) :
               ~(j = Len(s) \/ ~IsContinuation(s[j + 1]))

new(s) == [i \in 1..N |-> IF i <= TruncLen(s) THEN s[i] ELSE 0]

\* The text of a buffer: the buffer without its trailing padding.
RECURSIVE TrimPadding(_)
TrimPadding(d) ==
    IF d # <<>> /\ d[Len(d)] = 0 THEN TrimPadding(SubSeq(d, 1, Len(d) - 1))
    ELSE d

\* FixedStr::try_as_str(&self) -> Result<&str, FixedStrError>.
try_as_str(d) == IF ValidUtf8(d) THEN Ok(TrimPadding(d)) ELSE Err("InvalidUtf8")

\* FixedStr::as_bytes(&self) -> &[u8]: the raw N bytes.
as_bytes(d) == d

\* FixedStr::<N>::try_from(bytes: &[u8]): exact-length construction.
try_from(b) == IF Len(b) = N THEN Ok(b) ELSE Err("LengthMismatch")

\* PartialEq for FixedStr<N>: byte identity of the buffers.
FixedStrEq(a, b) == a = b

\* ------------------------------------------------------------ binrw codec

Endian == {"Big", "Little"}

Reverse(s) == [i \in 1..Len(s) |-> s[Len(s) + 1 - i]]

\* Write::write_all on a Cursor<Vec<u8>> at position p: overwrites what is
\* there, extends the vector past its end, and advances the cursor.
write_all(st, p, data) ==
    [stream |-> [i \in 1..Max(Len(st), p + Len(data)) |->
                    IF i > p /\ i <= p + Len(data) THEN data[i - p] ELSE st[i]],
     pos |-> p + Len(data)]

\* Read::read_exact on the cursor at position p into buf: fills all of buf
\* and advances by its length, or fails with UnexpectedEof having filled
\* only what was left; the position after a failure is any of p..Len(st).
read_exact(st, p, buf) ==
    LET rem == Len(st) - p IN
    IF rem >= Len(buf)
    THEN {[ok |-> TRUE, buf |-> SubSeq(st, p + 1, p + Len(buf)),
           pos |-> p + Len(buf)]}
    ELSE {[ok |-> FALSE,
           buf |-> [i \in 1..Len(buf) |-> IF i <= rem THEN st[p + i] ELSE buf[i]],
           pos |-> q] : q \in p..Len(st)}

\* A reader that accepts a short read and keeps the zero-padded buffer.
read_value_partial(r) == Ok(r.buf)

\* read_options after read_exact returned r: `?` drops buf on an error.
read_value(r) == IF r.ok THEN Ok(r.buf) ELSE Err("UnexpectedEof")

\* BinRead::read_options: every outcome [res, pos] of a read at position p.
read_options(st, p, endian) ==
    LET buf == [i \in 1..N |-> 0] IN
    {[res |-> read_value(r), pos |-> r.pos] : r \in read_exact(st, p, buf)}

\* A writer that frames the payload with a length prefix.
write_bytes_prefixed(data, endian) == <<Len(data)>> \o data

\* A writer that honours the byte order.
write_bytes_swapped(data, endian) == IF endian = "Big" THEN Reverse(data) ELSE data

\* The bytes write_options hands to write_all: &self.data, _endian ignored.
write_bytes(data, endian) == data

\* BinWrite::write_options: the stream and cursor after writing v at p.
write_options(v, st, p, endian) == write_all(st, p, write_bytes(v, endian))

\* ------------------------------------------------------------- rkyv codec

\* A validator that accepts only buffers holding valid text.
check_bytes_utf8(value) == IF ValidUtf8(value) THEN Ok(<<>>) ELSE Err("CheckBytes")

\* CheckBytes::check_bytes(value, context): always Ok(()).
check_bytes(value) == Ok(<<>>)

\* Archive::resolve(&self, resolver, out): ptr::write(out, *self), the bytes
\* placed at `out`.
resolve(v) == v

\* A serializer hook that writes the text of the value, not its buffer.
rkyv_serialize_text(v, sink) == sink \o TrimPadding(v)

\* Serialize::serialize(&self, serializer): serializer.write(&self.data);
\* the serializer's bytes afterwards.
rkyv_serialize(v, sink) == sink \o v

\* rkyv::to_bytes(&v): the Serialize hook on an empty serializer, then the
\* resolved root (alignment 1) written after what the hook wrote.
to_bytes(v) == rkyv_serialize(v, <<>>) \o resolve(v)

\* The root of an archive as a FixedStr<N>: its last size_of::<FixedStr<N>>()
\* bytes.
Root(bytes) == SubSeq(bytes, Len(bytes) - N + 1, Len(bytes))

\* rkyv::access::<FixedStr<N>, _>(bytes): check_bytes on the root, then
\* the root viewed in place.
access(bytes) ==
    LET c == check_bytes(Root(bytes)) IN
    IF c.ok THEN Ok(Root(bytes)) ELSE Err(c.err)

\* rkyv::access_unchecked::<FixedStr<N>>(bytes).
access_unchecked(bytes) == Ok(Root(bytes))

\* A deserializer that rebuilds the value from its text.
rkyv_deserialize_text(archived) ==
    IF try_as_str(archived).ok THEN Ok(new(try_as_str(archived).val))
    ELSE Err("InvalidUtf8")

\* Deserialize::deserialize(&self, deserializer): Ok(*self).
rkyv_deserialize(archived) == Ok(archived)

\* ------------------------------------------------------------ serde codec

StrTok(s) == [kind |-> "Str", val |-> s]
BytesTok(b) == [kind |-> "Bytes", val |-> b]

\* The longest prefix of d that is valid UTF-8.
ValidPrefix(d) ==
    LET k == CHOOSE k \in 0..Len(d) :
                /\ ValidUtf8(SubSeq(d, 1, k))
                /\ \A j \in (k + 1)..Len(d) : ~ValidUtf8(SubSeq(d, 1, j))
    IN SubSeq(d, 1, k)

\* A serializer that emits what text it can instead of failing.
serde_serialize_lossy(v) == Ok(StrTok(TrimPadding(ValidPrefix(v))))

\* The bytes of d before its first zero byte.
RECURSIVE UpToNul(_)
UpToNul(d) ==
    IF d = <<>> \/ d[1] = 0 THEN <<>> ELSE <<d[1]>> \o UpToNul(Tail(d))

\* A serializer that ends the text at the first zero byte.
serde_serialize_cstr(v) ==
    IF try_as_str(v).ok THEN Ok(StrTok(UpToNul(v))) ELSE Err("InvalidUtf8")

\* serde Serialize::serialize: serialize_str of try_as_str, or the custom
\* error made of FixedStrError::InvalidUtf8.
serde_serialize(v) ==
    LET r == try_as_str(v) IN
    IF r.ok THEN Ok(StrTok(r.val)) ELSE Err("InvalidUtf8")

\* A visitor that refuses a string longer than the capacity.
visit_str_strict(value) ==
    IF Len(value) > N THEN Err("InvalidLength") ELSE Ok(new(value))

\* FixedStrVisitor::visit_str(value): Ok(FixedStr::new(value)).
visit_str(value) == Ok(new(value))

\* serde Deserialize::deserialize on a string token:
\* deserializer.deserialize_str(FixedStrVisitor::<N>).
serde_deserialize(s) == visit_str(s)

\* A byte serializer that goes through the text of the value.
serde_as_bytes_serialize_text(v) ==
    IF try_as_str(v).ok THEN Ok(BytesTok(try_as_str(v).val))
    ELSE Err("InvalidUtf8")

\* serde_as_bytes::serialize: serializer.serialize_bytes(value.as_bytes()).
serde_as_bytes_serialize(v) == Ok(BytesTok(as_bytes(v)))

\* A byte deserializer that truncates and zero-pads like the text path.
serde_as_bytes_deserialize_lenient(bytes) ==
    Ok([i \in 1..N |-> IF i <= Len(bytes) THEN bytes[i] ELSE 0])

\* serde_as_bytes::deserialize on a byte token:
\* FixedStr::<N>::try_from(bytes).map_err(custom).
serde_as_bytes_deserialize(bytes) ==
    LET r == try_from(bytes) IN IF r.ok THEN Ok(r.val) ELSE Err(r.err)

\* ------------------------------------------------------------------ state

VARIABLES
    stream,   \* the Vec<u8> behind the cursor
    pos,      \* the cursor's position
    wlog,     \* the write_options calls made: [at, val]
    rlog,     \* the read_options calls since the last set_position:
              \* [at, rem, nw, res], nw the writes made before
    endian,   \* the endian argument of the last write and the last read
    arch,     \* the archive: the bytes to_bytes produced, or bytes loaded
    asink,    \* the bytes the Serialize hook wrote to the serializer
    aorig,    \* the value archived, <<>> for loaded bytes
    achk,     \* the result of the last check_bytes
    aview,    \* the result of the last access: the archived value viewed
    acopy,    \* the result of the last deserialize of the viewed value
    sval,     \* the FixedStr value handed to the serde serializers
    tok,      \* the last serializer call: [by, res], res.val the token
    des       \* the last deserializer call: [by, input, res]

binVars == <<stream, pos, wlog, rlog, endian>>
rkyvVars == <<arch, asink, aorig, achk, aview, acopy>>
serdeVars == <<sval, tok, des>>
vars == <<binVars, rkyvVars, serdeVars>>

\* No serializer or deserializer call made yet.
NoCall == [by |-> "none", input |-> <<>>, res |-> None]


\* ------------------------------------------------- the binary stream

WriteOptions ==
    /\ Len(wlog) < MaxWrites
    /\ \E v \in SeqsOfLen(RawByte, N), e \in Endian :
         LET w == write_options(v, stream, pos, e) IN
         /\ stream' = w.stream
         /\ pos' = w.pos
         /\ wlog' = Append(wlog, [at |-> pos, val |-> v])
         /\ endian' = [endian EXCEPT !.w = e]
    /\ UNCHANGED <<rlog, rkyvVars, serdeVars>>

ReadOptions ==
    /\ Len(rlog) < MaxReads
    /\ \E e \in Endian : \E r \in read_options(stream, pos, e) :
         /\ pos' = r.pos
         /\ rlog' = Append(rlog, [at |-> pos, rem |-> Len(stream) - pos,
                                  nw |-> Len(wlog), res |-> r.res])
         /\ endian' = [endian EXCEPT !.r = e]
    /\ UNCHANGED <<stream, wlog, rkyvVars, serdeVars>>

\* Cursor::set_position(p), as between the write and the read of a round trip.
SetPosition ==
    /\ \E p \in SeekTargets \cap 0..Len(stream) : pos' = p
    /\ rlog' = <<>>
    /\ UNCHANGED <<stream, wlog, endian, rkyvVars, serdeVars>>

BinNext == WriteOptions \/ ReadOptions \/ SetPosition

\* A new Cursor over an empty Vec<u8>; no codec called yet.
InitBinrw ==
    /\ stream = <<>>
    /\ pos = 0
    /\ wlog = <<>>
    /\ rlog = <<>>
    /\ endian = [w |-> "none", r |-> "none"]
    /\ arch = <<>>
    /\ asink = <<>>
    /\ aorig = <<>>
    /\ achk = None
    /\ aview = None
    /\ acopy = None
    /\ sval = <<>>
    /\ tok = NoCall
    /\ des = NoCall

SpecBinrw == InitBinrw /\ [][BinNext]_vars

\* -------------------------------------------------------- the archive

\* to_bytes(&v) for any value v, built from any N bytes.
ToBytes ==
    /\ \E v \in FixedStrs :
         /\ arch' = to_bytes(v)
         /\ asink' = rkyv_serialize(v, <<>>)
         /\ aorig' = v
    /\ achk' = None
    /\ aview' = None
    /\ acopy' = None
    /\ UNCHANGED <<binVars, serdeVars>>

\* Archived bytes that come from elsewhere: any N bytes.
LoadBytes ==
    /\ \E b \in FixedStrs : arch' = b
    /\ asink' = <<>>
    /\ aorig' = <<>>
    /\ achk' = None
    /\ aview' = None
    /\ acopy' = None
    /\ UNCHANGED <<binVars, serdeVars>>

\* access::<FixedStr<N>, _>(&bytes): validated zero-copy access.
Access ==
    /\ Len(arch) >= N
    /\ achk' = check_bytes(Root(arch))
    /\ aview' = access(arch)
    /\ acopy' = None
    /\ UNCHANGED <<arch, asink, aorig, binVars, serdeVars>>

\* access_unchecked::<FixedStr<N>>(&bytes).
AccessUnchecked ==
    /\ Len(arch) >= N
    /\ aview' = access_unchecked(arch)
    /\ acopy' = None
    /\ UNCHANGED <<arch, asink, aorig, achk, binVars, serdeVars>>

\* deserialize::<FixedStr<N>, _>(archived).
Deserialize ==
    /\ aview.ok
    /\ acopy' = rkyv_deserialize(aview.val)
    /\ UNCHANGED <<arch, asink, aorig, achk, aview, binVars, serdeVars>>

RkyvNext == ToBytes \/ LoadBytes \/ Access \/ AccessUnchecked \/ Deserialize

\* No archive made or loaded yet.
InitRkyv ==
    /\ stream = <<>>
    /\ pos = 0
    /\ wlog = <<>>
    /\ rlog = <<>>
    /\ endian = [w |-> "none", r |-> "none"]
    /\ arch = <<>>
    /\ asink = <<>>
    /\ aorig = <<>>
    /\ achk = None
    /\ aview = None
    /\ acopy = None
    /\ sval = <<>>
    /\ tok = NoCall
    /\ des = NoCall

SpecRkyv == InitRkyv /\ [][RkyvNext]_vars

\* ------------------------------------------------------ the serde codecs

\* The derived text codec serializes the value.
SerdeSerialize ==
    /\ tok' = [by |-> "serde", input |-> sval, res |-> serde_serialize(sval)]
    /\ UNCHANGED <<sval, des, binVars, rkyvVars>>

\* The derived text codec deserializes a string token.
SerdeDeserialize ==
    /\ \E s \in Strs :
         des' = [by |-> "serde", input |-> StrTok(s), res |-> serde_deserialize(s)]
    /\ UNCHANGED <<sval, tok, binVars, rkyvVars>>

\* #[serde(with = "serde_as_bytes")] serializes the value.
AsBytesSerialize ==
    /\ tok' = [by |-> "as_bytes", input |-> sval,
               res |-> serde_as_bytes_serialize(sval)]
    /\ UNCHANGED <<sval, des, binVars, rkyvVars>>

\* #[serde(with = "serde_as_bytes")] deserializes a byte token.
AsBytesDeserialize ==
    /\ \E b \in ByteSlices :
         des' = [by |-> "as_bytes", input |-> BytesTok(b),
                 res |-> serde_as_bytes_deserialize(b)]
    /\ UNCHANGED <<sval, tok, binVars, rkyvVars>>

\* The token a serializer emitted is read back by the same codec.
ReadBack ==
    /\ tok.res.ok
    /\ des' = [by |-> tok.by, input |-> tok.res.val,
               res |-> IF tok.by = "serde"
                       THEN serde_deserialize(tok.res.val.val)
                       ELSE serde_as_bytes_deserialize(tok.res.val.val)]
    /\ UNCHANGED <<sval, tok, binVars, rkyvVars>>

SerdeNext ==
    \/ SerdeSerialize
    \/ SerdeDeserialize
    \/ AsBytesSerialize
    \/ AsBytesDeserialize
    \/ ReadBack

\* Any FixedStr<N> value, built from any N bytes, is at hand.
InitSerde ==
    /\ stream = <<>>
    /\ pos = 0
    /\ wlog = <<>>
    /\ rlog = <<>>
    /\ endian = [w |-> "none", r |-> "none"]
    /\ arch = <<>>
    /\ asink = <<>>
    /\ aorig = <<>>
    /\ achk = None
    /\ aview = None
    /\ acopy = None
    /\ tok = NoCall
    /\ des = NoCall
    /\ sval \in FixedStrs

SpecSerde == InitSerde /\ [][SerdeNext]_vars

\* ------------------------------------------------------------- properties

TypeOK ==
    /\ pos \in 0..Len(stream)
    /\ Len(stream) <= (MaxWrites + 1) * N
    /\ sval \in FixedStrs \cup {<<>>}

\* The first read of the log was made at position 0 of a stream that held
\* one value, written at position 0 of the empty stream.
OneWrittenThenRead ==
    /\ wlog # <<>>
    /\ wlog[1].at = 0
    /\ rlog # <<>>
    /\ rlog[1].at = 0
    /\ rlog[1].nw = 1

\* C1: a value written to the empty stream and read back from position 0
\* is read successfully and with exactly the bytes written, whatever the
\* endian arguments of the write and of the read.
BinaryRoundTrip ==
    OneWrittenThenRead =>
        /\ rlog[1].res.ok
        /\ rlog[1].res.val = wlog[1].val

\* C1 happens: a value that is not valid UTF-8 and not a palindrome, written
\* big-endian and read back little-endian.
BinaryRoundTripWitness ==
    /\ OneWrittenThenRead
    /\ endian = [w |-> "Big", r |-> "Little"]
    /\ Len(wlog) = 1 /\ Len(rlog) = 1
    /\ ~ValidUtf8(wlog[1].val)
    /\ wlog[1].val[1] # wlog[1].val[N]

\* C7: a read with fewer than N bytes left at the cursor returns the
\* end-of-input error and no value; a read with at least N bytes left
\* succeeds with a value of N bytes.
ReadAllOrNothing ==
    \A j \in DOMAIN rlog :
        /\ rlog[j].rem < N =>
               /\ ~rlog[j].res.ok
               /\ rlog[j].res.err = "UnexpectedEof"
               /\ rlog[j].res.val = <<>>
        /\ rlog[j].rem >= N =>
               /\ rlog[j].res.ok
               /\ Len(rlog[j].res.val) = N

\* C7 happens: a read with some but not all of the N bytes left, then a
\* read with nothing left, both refused.
ReadAllOrNothingWitness ==
    /\ Len(rlog) = 2
    /\ rlog[1].rem > 0 /\ rlog[1].rem < N /\ ~rlog[1].res.ok
    /\ rlog[2].rem = 0 /\ ~rlog[2].res.ok

\* The data of the logged writes, one after the other.
RECURSIVE Written(_)
Written(log) ==
    IF log = <<>> THEN <<>>
    ELSE Written(SubSeq(log, 1, Len(log) - 1)) \o log[Len(log)].val

\* Every write so far was made right after the one before, from position 0.
BackToBack == \A i \in DOMAIN wlog : wlog[i].at = (i - 1) * N

\* The logged reads were made one after the other from position 0, after
\* the last write.
ReadsFromStart ==
    /\ rlog # <<>>
    /\ rlog[1].at = 0
    /\ \A j \in DOMAIN rlog : rlog[j].nw = Len(wlog)

\* C10: k values written back to back make a stream of exactly k * N bytes,
\* the values' bytes in order; reads from position 0 then return the values
\* in order, each advancing the cursor by N, k reads leave the cursor at
\* k * N, and the read after them fails with end of input.
PositionalFraming ==
    BackToBack =>
        /\ Len(stream) = Len(wlog) * N
        /\ stream = Written(wlog)
        /\ ReadsFromStart =>
               /\ \A j \in DOMAIN rlog :
                      IF j <= Len(wlog)
                      THEN /\ rlog[j].at = (j - 1) * N
                           /\ rlog[j].res.ok
                           /\ rlog[j].res.val = wlog[j].val
                      ELSE /\ rlog[j].at = Len(wlog) * N
                           /\ ~rlog[j].res.ok
                           /\ rlog[j].res.err = "UnexpectedEof"
               /\ pos = Min(Len(rlog), Len(wlog)) * N

\* C10 happens: two different values written back to back, then read back,
\* then one read more.
PositionalFramingWitness ==
    /\ BackToBack
    /\ ReadsFromStart
    /\ Len(wlog) >= 2
    /\ wlog[1].val # wlog[2].val
    /\ Len(rlog) = Len(wlog) + 1

\* C2: the Serialize hook writes exactly the N bytes of the value archived,
\* and the zero-copy view of the archive and the deserialized copy of that
\* view both hold those bytes, valid UTF-8 or not.
ArchiveReadBack ==
    aorig # <<>> =>
        /\ asink = aorig
        /\ aview # None => aview.ok /\ aview.val = aorig
        /\ acopy # None => acopy.ok /\ acopy.val = aorig

\* C2 happens: a value that try_as_str rejects was archived, accessed with
\* validation and deserialized.
ArchiveReadBackWitness ==
    /\ aorig # <<>>
    /\ ~try_as_str(aorig).ok
    /\ achk.ok
    /\ aview.ok
    /\ acopy.ok

\* C8: check_bytes never returns an error, so validated access succeeds on
\* any N archived bytes.
ValidationNeverRejects ==
    /\ achk # None => achk.ok
    /\ aview # None => aview.ok

\* C8 happens: N loaded bytes that are not valid UTF-8 passed validation.
ValidationNeverRejectsWitness ==
    /\ aorig = <<>>
    /\ Len(arch) = N
    /\ ~ValidUtf8(arch)
    /\ achk.ok
    /\ aview.ok

TextRoundTripPaddedWitness ==
    /\ tok.by = "serde" /\ tok.res.ok
    /\ des.by = "serde" /\ des.input = tok.res.val
    /\ sval[1] # 0 /\ sval[N] = 0

\* C4: the text serializer returns the InvalidUtf8 error and no token for a
\* buffer that is not valid UTF-8, and one string token for a valid one.
TextSerializeRejectsInvalid ==
    tok.by = "serde" =>
        /\ ~ValidUtf8(sval) =>
               /\ ~tok.res.ok
               /\ tok.res.err = "InvalidUtf8"
               /\ tok.res.val = <<>>
        /\ ValidUtf8(sval) =>
               /\ tok.res.ok
               /\ tok.res.val.kind = "Str"

\* C4 happens: a buffer that starts with valid text and ends in an invalid
\* byte was refused.
TextSerializeRejectsInvalidWitness ==
    /\ tok.by = "serde"
    /\ sval[1] = 97
    /\ ~ValidUtf8(sval)
    /\ ~tok.res.ok

StrictByteDeserialize ==
    des.by = "as_bytes" =>
        LET b == des.input.val IN
        /\ Len(b) # N =>
               /\ ~des.res.ok
               /\ des.res.err = "LengthMismatch"
               /\ des.res.val = <<>>
        /\ Len(b) = N =>
               /\ des.res.ok
               /\ des.res.val = b

\* C6 happens: a byte token one byte short of N was refused.
StrictByteDeserializeWitness ==
    /\ des.by = "as_bytes"
    /\ Len(des.input.val) = N - 1
    /\ ~des.res.ok

\* C9: the byte serializer succeeds on every value and emits one byte token
\* holding its N raw bytes, and the byte deserializer given that token
\* returns a value equal to it.
ByteSerializeTotal ==
    /\ tok.by = "as_bytes" =>
           /\ tok.res.ok
           /\ tok.res.val = BytesTok(sval)
    /\ (tok.by = "as_bytes" /\ des.by = "as_bytes"
            /\ des.input = tok.res.val) =>
           des.res.ok /\ FixedStrEq(des.res.val, sval)

\* C9 happens: a value the text serializer refuses went through the byte
\* codec and back.
ByteSerializeTotalWitness ==
    /\ ~serde_serialize(sval).ok
    /\ tok.by = "as_bytes" /\ tok.res.ok
    /\ des.by = "as_bytes" /\ des.input = tok.res.val
    /\ des.res.ok

====
